---------------------------- MODULE Spec2Model ----------------------------
(***************************************************************************)
(* PortSight: the proforma engine (analytics/proforma_engine.py) and the   *)
(* return metrics engine (analytics/return_metrics_engine.py).             *)
(*                                                                         *)
(* Numbers.  The engines compute in 64-bit floating point.  The model      *)
(* computes in exact integer arithmetic and draws the assumption records   *)
(* from values on which every product and quotient of the engine is an     *)
(* integer (Exact below), so that no rounding is hidden: money is an       *)
(* integer, a fraction-valued field (ltv, vacancy, ...) is a pair          *)
(* <<numerator, denominator>>, a growth rate g is the integer 1 + g.       *)
(* A fractional power b ** ((t-1)/12) is exact for b = 0 and b = 1, the    *)
(* two growth bases the records use.                                       *)
(***************************************************************************)
EXTENDS Integers, Sequences, FiniteSets, TLC

VARIABLES
    a,            \* the assumption record handed to generate_return_metrics
    pc,           \* position in generate_return_metrics
    monthly_cf,   \* build_proforma's df: the monthly rows
    equity_cf,    \* build_proforma's eq: the equity events
    metrics,      \* the metrics dict returned
    series,       \* _calc_xirr: the date-indexed cash flows it is given
    irr_pc,       \* _calc_xirr: position
    calls,        \* _calc_xirr: the solvers called so far, in order
    primary,      \* _calc_xirr: how xirr.xirr(lib) ended
    scan_i,       \* _xirr_fallback: the loop index i over the grid pairs
    failed,       \* _xirr_fallback: the pairs whose brentq raised
    fb,           \* _calc_xirr: what _xirr_fallback returned
    result,       \* _calc_xirr: the value returned
    dicts,        \* a caller of generate_return_metrics: the dicts it holds
    returned,     \* that caller: argument and outcome of each call made
    memo,         \* the series handed to the IRR solver, and what it gave
    pl_pc,        \* run_owned_pipeline: position
    portfolio_id, \* run_owned_pipeline: its argument
    property_id,  \* run_owned_pipeline: the local property_id
    acquisition_id, \* run_owned_pipeline: the local acquisition_id
    db,           \* the rows committed to each table
    steps         \* run_owned_pipeline: the steps run so far, in order

proformaVars == <<a, pc, monthly_cf, equity_cf, metrics>>
irrVars == <<series, irr_pc, calls, primary, scan_i, failed, fb, result>>
callVars == <<dicts, returned, memo>>
pipeVars == <<pl_pc, portfolio_id, property_id, acquisition_id, db, steps>>
vars == <<a, pc, monthly_cf, equity_cf, metrics,
          series, irr_pc, calls, primary, scan_i, failed, fb, result,
          dicts, returned, memo,
          pl_pc, portfolio_id, property_id, acquisition_id, db, steps>>

Null == [k |-> "null"]      \* Python None as a metric value
NoValue == "none"           \* a variable not yet assigned
None == 0 - 1               \* Python None where the other values are ids >= 0

(***************************************************************************)
(* Bounds of the model.                                                    *)
(***************************************************************************)
MaxHoldYears == 2
MaxAmt == 3                 \* cash flows of a series lie in -MaxAmt..MaxAmt

(***************************************************************************)
(* Calendar: pd.Timestamp, relativedelta(months=1), freq="M" month ends.   *)
(***************************************************************************)
IsLeap(y) == (y % 4 = 0 /\ y % 100 # 0) \/ y % 400 = 0

DaysInMonth(y, m) ==
    IF m = 2 THEN (IF IsLeap(y) THEN 29 ELSE 28)
    ELSE IF m \in {4, 6, 9, 11} THEN 30 ELSE 31

MonthIndex(dt) == dt.y * 12 + (dt.m - 1)

Min(x, y) == IF x <= y THEN x ELSE y
Max(x, y) == IF x >= y THEN x ELSE y

\* date + relativedelta(months=n): the month moves, the day is clipped to
\* the length of the target month.
AddMonths(dt, n) ==
    LET idx == MonthIndex(dt) + n
        y2 == idx \div 12
        m2 == (idx % 12) + 1
    IN [y |-> y2, m |-> m2, d |-> Min(dt.d, DaysInMonth(y2, m2))]

\* MonthEnd.rollforward: the month end on or after dt.
RollForwardMonthEnd(dt) == [y |-> dt.y, m |-> dt.m, d |-> DaysInMonth(dt.y, dt.m)]

\* pd.date_range(start, periods=n, freq="M")[k], k = 1..n: start rolled
\* forward to a month end, then one month end after the other.
DateRangeM(start, k) ==
    LET first == RollForwardMonthEnd(start)
        idx == MonthIndex(first) + (k - 1)
        y2 == idx \div 12
        m2 == (idx % 12) + 1
    IN [y |-> y2, m |-> m2, d |-> DaysInMonth(y2, m2)]

DateLT(p, q) ==
    \/ p.y < q.y
    \/ p.y = q.y /\ p.m < q.m
    \/ p.y = q.y /\ p.m = q.m /\ p.d < q.d

(***************************************************************************)
(* Numbers: fraction-valued fields and exact quotients.                    *)
(***************************************************************************)
Times(x, fr) == (x * fr[1]) \div fr[2]          \* x * fr
Over(x, fr) == (x * fr[2]) \div fr[1]           \* x / fr, fr # 0
IsZero(fr) == fr[1] = 0
TimesExact(x, fr) == (x * fr[1]) % fr[2] = 0
OverExact(x, fr) == fr[1] # 0 => (x * fr[2]) % fr[1] = 0

RECURSIVE Pow(_, _)
Pow(b, n) == IF n = 0 THEN 1 ELSE b * Pow(b, n - 1)

RECURSIVE SumTo(_, _, _)
\* sum of F[i] for i in lo..hi
SumTo(F, lo, hi) == IF lo > hi THEN 0 ELSE F[hi] + SumTo(F, lo, hi - 1)

(***************************************************************************)
(* build_proforma: reading the dict.                                       *)
(***************************************************************************)
\* The dict: rec.absent is the set of keys the dict does not hold (the
\* record's field of such a key is a placeholder that is never read).
Has(rec, key) == key \notin rec.absent

\* a.get(key, default): the default only when the key is absent.
Get(rec, key, default) == IF Has(rec, key) THEN rec[key] ELSE default

\* f(a.get(key)) for a money field: float(x or 0).
GetMoney(rec, key) == IF Has(rec, key) THEN rec[key] ELSE 0

HoldYears(rec) == Get(rec, "hold_period_years", 10)
\* (variant: the number of periods taken as the years)
HoldMonths_Years(rec) == HoldYears(rec)
HoldMonths(rec) == HoldYears(rec) * 12

PurchasePrice(rec) == GetMoney(rec, "purchase_price")
ClosingCostsFraction(rec) == Get(rec, "closing_costs", <<2, 100>>)
ClosingCosts(rec) == Times(PurchasePrice(rec), ClosingCostsFraction(rec))
RentBase(rec) == GetMoney(rec, "rent_immediately_after_purchase")
Vacancy(rec) == Get(rec, "vacancy_immediately_after_purchase", <<5, 100>>)
OtherIncomeBase(rec) == GetMoney(rec, "other_income_immediately_after_purchase")
ExpenseBase(rec) == GetMoney(rec, "operating_expenses_after_purchase")
CapexInitial(rec) == GetMoney(rec, "capital_expense_after_purchase")
\* the growth fields hold the base 1 + g
RentGrowthBase(rec) == rec["expected_rent_growth"]
ExpenseGrowthBase(rec) == rec["expected_expense_growth"]
CapexGrowthBase(rec) == rec["expected_capex_growth"]
ExitCap(rec) == Get(rec, "exit_cap_rate_expectation", <<55, 1000>>)
CostOfSale(rec) == Get(rec, "cost_of_sale_percentage", <<5, 100>>)
Ltv(rec) == Get(rec, "ltv", <<7, 10>>)
\* interest_rate / 12, an integer in the records drawn
MonthlyRate(rec) == rec["interest_rate"] \div 12
AmortYears(rec) == Get(rec, "amortization_years", 30)
LoanAmount(rec) == Times(PurchasePrice(rec), Ltv(rec))
Nper(rec) == AmortYears(rec) * 12

\* (1 + g) ** YearsFrac with YearsFrac = (MonthNum - 1) / 12, for the bases
\* 0 and 1: 0 ** 0 = 1, 0 ** y = 0 for y > 0, 1 ** y = 1.
GrowthFactor(base, t) == IF t = 1 THEN 1 ELSE IF base = 0 THEN 0 ELSE 1

(***************************************************************************)
(* numpy_financial pmt / ipmt / ppmt (when = 'end', fv = 0).               *)
(***************************************************************************)
\* npf.pmt(rate, nper, pv)
Pmt(rate, nper, pv) ==
    IF rate = 0 THEN (0 - pv) \div nper
    ELSE LET T == Pow(1 + rate, nper)
         IN (0 - (pv * rate * T)) \div (T - 1)

\* the remaining balance before period per: npf.fv(rate, per - 1, pmt, pv),
\* -(pv (1+r)^(per-1) + pmt ((1+r)^(per-1) - 1) / r), with the two terms in
\* (1+r)^(per-1) collected.
Rbl(rate, per, nper, pv) ==
    LET pmt == Pmt(rate, nper, pv)
    IN IF rate = 0 THEN 0 - (pv + pmt * (per - 1))
       ELSE LET P == Pow(1 + rate, per - 1)
                q == pmt \div rate
            IN 0 - ((pv + q) * P - q)

\* npf.ipmt(rate, per, nper, pv)
Ipmt(rate, per, nper, pv) == Rbl(rate, per, nper, pv) * rate

\* npf.ppmt(rate, per, nper, pv) = pmt - ipmt
Ppmt(rate, per, nper, pv) == Pmt(rate, nper, pv) - Ipmt(rate, per, nper, pv)

(***************************************************************************)
(* build_proforma: the monthly rows.                                       *)
(***************************************************************************)
InterestPayment(rec, t) ==
    IF LoanAmount(rec) > 0
    THEN Ipmt(MonthlyRate(rec), t, Nper(rec), LoanAmount(rec))
    ELSE 0

\* (variant: the schedule amortizes the purchase price, not the loan)
PrincipalPayment_OnPrice(rec, t) ==
    IF PurchasePrice(rec) > 0
    THEN Ppmt(MonthlyRate(rec), t, Nper(rec), PurchasePrice(rec))
    ELSE 0

PrincipalPayment(rec, t) ==
    IF LoanAmount(rec) > 0
    THEN Ppmt(MonthlyRate(rec), t, Nper(rec), LoanAmount(rec))
    ELSE 0

\* (variant: the range starts at the close date itself)
RowDate_FromClose(rec, t) == DateRangeM(rec["date_of_close"], t)
RowDate(rec, t) == DateRangeM(AddMonths(rec["date_of_close"], 1), t)

Row(rec, t) ==
    LET gpr == RentBase(rec) * GrowthFactor(RentGrowthBase(rec), t)
        vac == 0 - Times(gpr, Vacancy(rec))
        oi == OtherIncomeBase(rec) * GrowthFactor(RentGrowthBase(rec), t)
        nrr == gpr + vac + oi
        opex == 0 - ExpenseBase(rec) * GrowthFactor(ExpenseGrowthBase(rec), t)
        noi == nrr + opex
        capex == 0 - CapexInitial(rec) * GrowthFactor(CapexGrowthBase(rec), t)
        cfbds == noi + capex
        ip == InterestPayment(rec, t)
        pp == PrincipalPayment(rec, t)
    IN [MonthNum |-> t,
        Date |-> RowDate(rec, t),
        GrossPotentialRent |-> gpr,
        VacancyLoss |-> vac,
        OtherIncome |-> oi,
        NetRentalRevenue |-> nrr,
        OperatingExpenses |-> opex,
        NetOperatingIncome |-> noi,
        CapitalExpenses |-> capex,
        CashFlowBeforeDebtService |-> cfbds,
        InterestPayment |-> ip,
        PrincipalPayment |-> pp,
        CashFlowAfterDebtService |-> cfbds + ip + pp]

\* df: one row per period of the date range
MonthlyRows(rec) == [t \in 1..HoldMonths(rec) |-> Row(rec, t)]

\* sum of a column over rows lo..hi
ColSum(df, col, lo, hi) == SumTo([i \in 1..Len(df) |-> df[i][col]], lo, hi)

\* df[col].iloc[-12:].sum()
Last12Sum(df, col) == ColSum(df, col, Max(1, Len(df) - 11), Len(df))

\* df.iloc[0:12][col].sum()
First12Sum(df, col) == ColSum(df, col, 1, Min(12, Len(df)))

ColTotal(df, col) == ColSum(df, col, 1, Len(df))

(***************************************************************************)
(* build_proforma: the sale and the equity events.                         *)
(***************************************************************************)
SalePrice(rec, df) ==
    IF ~IsZero(ExitCap(rec)) THEN Over(Last12Sum(df, "NetOperatingIncome"), ExitCap(rec))
    ELSE 0

SaleCost(rec, df) == Times(SalePrice(rec, df), CostOfSale(rec))

LoanPayoff(rec, df) ==
    Max(LoanAmount(rec) - (0 - ColTotal(df, "PrincipalPayment")), 0)

\* eq before the sale is added: the close event, then one event per row
EqBeforeSale(rec, df) ==
    [i \in 1..(Len(df) + 1) |->
        IF i = 1
        THEN [Date |-> rec["date_of_close"],
              UnleveredCashFlow |-> 0 - PurchasePrice(rec) - ClosingCosts(rec),
              LeveredCashFlow |-> 0 - PurchasePrice(rec) - ClosingCosts(rec) + LoanAmount(rec)]
        ELSE [Date |-> df[i - 1].Date,
              UnleveredCashFlow |-> df[i - 1].CashFlowBeforeDebtService,
              LeveredCashFlow |-> df[i - 1].CashFlowAfterDebtService]]

\* (variant: the sale is appended as an event of its own on the last date)
EquityEvents_Appended(rec, df) ==
    LET eq == EqBeforeSale(rec, df)
        n == Len(eq)
        net == SalePrice(rec, df) - SaleCost(rec, df)
    IN Append(eq, [Date |-> eq[n].Date,
                   UnleveredCashFlow |-> net,
                   LeveredCashFlow |-> net - LoanPayoff(rec, df)])

\* eq.iloc[-1] += [sale_price - sale_cost, sale_price - sale_cost - loan_payoff]
EquityEvents(rec, df) ==
    LET eq == EqBeforeSale(rec, df)
        n == Len(eq)
        net == SalePrice(rec, df) - SaleCost(rec, df)
    IN [eq EXCEPT ![n] = [Date |-> eq[n].Date,
                          UnleveredCashFlow |-> eq[n].UnleveredCashFlow + net,
                          LeveredCashFlow |-> eq[n].LeveredCashFlow + net - LoanPayoff(rec, df)]]

(***************************************************************************)
(* Metric values: None, a non-finite float (inf or nan), or the number     *)
(* n / d with d > 0.                                                       *)
(***************************************************************************)
NonFinite == [k |-> "nonfinite"]
Num(n, d) == IF d < 0 THEN [k |-> "num", n |-> 0 - n, d |-> 0 - d]
             ELSE [k |-> "num", n |-> n, d |-> d]

\* numpy float division: a zero divisor gives inf or nan (a warning, no raise)
Ratio(n, d) == IF d = 0 THEN NonFinite ELSE Num(n, d)

Abs(x) == IF x < 0 THEN 0 - x ELSE x

RECURSIVE LongDiv(_, _, _, _)
\* <<floor(q + r / d scaled by 10^digits), remainder>>, digit by digit
LongDiv(q, r, d, digits) ==
    IF digits = 0 THEN <<q, r>>
    ELSE LongDiv(q * 10 + ((r * 10) \div d), (r * 10) % d, d, digits - 1)

\* round(n / d, digits) as an integer count of 10^-digits, half to even
RoundScaled(n, d, digits) ==
    LET m == Abs(n)
        qr == LongDiv(m \div d, m % d, d, digits)
        q == qr[1]
        r == qr[2]
        up == IF 2 * r > d THEN q + 1
              ELSE IF 2 * r = d /\ q % 2 = 1 THEN q + 1
              ELSE q
    IN IF n < 0 THEN 0 - up ELSE up

\* round(v, 6) of the closing loop: None is skipped, a non-finite float stays
\* what it is, a number with at most six decimals is unchanged.
Round6(v) ==
    IF v.k # "num" THEN v
    ELSE IF 1000000 % v.d = 0 THEN v
    ELSE Num(RoundScaled(v.n, v.d, 6), 1000000)

(***************************************************************************)
(* return_metrics_engine: the helper calculations.  m is data_clean, df    *)
(* monthly_cf, eq equity_cf.  m[key] raises KeyError on an absent key      *)
(* (KeyErrorRaised below); m.get(key) gives None.                          *)
(***************************************************************************)
Truthy(rec, key) == Has(rec, key) /\ rec[key] # 0

going_in_cap_rate(df, m) ==
    IF Truthy(m, "purchase_price")
    THEN Ratio(First12Sum(df, "NetOperatingIncome"), m["purchase_price"])
    ELSE Null

TotalDebtService12(df) ==
    First12Sum(df, "PrincipalPayment") + First12Sum(df, "InterestPayment")

loan_constant(m, df) ==
    LET loan_amount == Times(m["purchase_price"], m["ltv"])
    IN IF loan_amount # 0 THEN Ratio(TotalDebtService12(df), loan_amount) ELSE Null

going_in_dscr(m, df) ==
    IF TotalDebtService12(df) # 0
    THEN Ratio(First12Sum(df, "NetOperatingIncome"), TotalDebtService12(df))
    ELSE Null

going_in_debt_yield(m, df) ==
    LET loan_amount == Times(m["purchase_price"], m["ltv"])
    IN IF loan_amount # 0 THEN Ratio(First12Sum(df, "NetOperatingIncome"), loan_amount)
       ELSE Null

\* purchase_price * ltv * 0.8 over purchase_price * 1.1
exit_ltv(m, eq) ==
    LET purchase_price == Get(m, "purchase_price", 0)
        ltv == Get(m, "ltv", <<0, 1>>)
        exit_cap == Get(m, "exit_cap_rate_expectation", <<55, 1000>>)
    IN IF exit_cap[1] > 0
       THEN (IF purchase_price * 11 > 0
             THEN Ratio(purchase_price * ltv[1] * 8, purchase_price * ltv[2] * 11)
             ELSE Null)
       ELSE Null

NegSum(eq, col) ==
    SumTo([i \in 1..Len(eq) |-> IF eq[i][col] < 0 THEN eq[i][col] ELSE 0], 1, Len(eq))
PosSum(eq, col) ==
    SumTo([i \in 1..Len(eq) |-> IF eq[i][col] > 0 THEN eq[i][col] ELSE 0], 1, Len(eq))

EquityMultiple(eq, col) ==
    IF NegSum(eq, col) # 0 THEN Ratio(PosSum(eq, col), Abs(NegSum(eq, col))) ELSE Null

unlevered_equity_multiple(eq) == EquityMultiple(eq, "UnleveredCashFlow")
levered_equity_multiple(eq) == EquityMultiple(eq, "LeveredCashFlow")

\* avg is computed before the test of purchase_price
avg_unlevered_coc(df, m) ==
    LET purchase_price == m["purchase_price"]
        hold_months == m["hold_period_years"] * 12
        avg == Ratio(ColTotal(df, "CashFlowBeforeDebtService"), purchase_price * hold_months)
    IN IF purchase_price # 0 THEN avg ELSE Null

EquityInvested(m) ==
    m["purchase_price"] - Times(m["purchase_price"], m["ltv"])
        + Times(m["purchase_price"], Get(m, "closing_costs", <<0, 1>>))

avg_levered_coc(df, m) ==
    LET hold_months == m["hold_period_years"] * 12
        equity_invested == EquityInvested(m)
        avg == Ratio(ColTotal(df, "CashFlowAfterDebtService"), equity_invested * hold_months)
    IN IF equity_invested # 0 THEN avg ELSE Null

year1_op_ex_ratio(df) ==
    LET op_ex == Abs(First12Sum(df, "OperatingExpenses"))
        egr == First12Sum(df, "GrossPotentialRent")
    IN IF egr # 0 THEN Ratio(op_ex, egr) ELSE Null

\* the keys the helpers subscript: m["purchase_price"], m["ltv"],
\* m["hold_period_years"]
KeyErrorRaised(m) ==
    \/ ~Has(m, "purchase_price")
    \/ ~Has(m, "ltv")
    \/ ~Has(m, "hold_period_years")

\* what _calc_xirr can hand back for a series: None, a finite rate, or a
\* non-finite float
IrrResults == {Null, NonFinite, [k |-> "rate", tier |-> "any", pair |-> 0 - 1]}

MetricsRecord(m, df, eq, uirr, lirr) ==
    LET raw == [going_in_cap_rate |-> going_in_cap_rate(df, m),
                loan_constant |-> loan_constant(m, df),
                going_in_dscr |-> going_in_dscr(m, df),
                going_in_debt_yield |-> going_in_debt_yield(m, df),
                exit_ltv |-> exit_ltv(m, eq),
                unlevered_irr |-> uirr,
                levered_irr |-> lirr,
                unlevered_equity_multiple |-> unlevered_equity_multiple(eq),
                levered_equity_multiple |-> levered_equity_multiple(eq),
                avg_unlevered_coc |-> avg_unlevered_coc(df, m),
                avg_levered_coc |-> avg_levered_coc(df, m),
                year1_op_ex_ratio |-> year1_op_ex_ratio(df),
                projected_sale_price |-> Num(Get(m, "purchase_price", 0) * 12, 10),
                net_sale_proceeds |-> Num(eq[Len(eq)].LeveredCashFlow, 1)]
    IN [key \in DOMAIN raw |-> Round6(raw[key])]

(***************************************************************************)
(* _calc_xirr and _xirr_fallback.  A series is a sequence of               *)
(* [day |-> date as a day number, v |-> cash flow], in date order.  The    *)
(* dates drawn lie whole years (365 days) apart, so that                   *)
(* (1 + r) ** days_frac is an integer power and the sign of NPV at a grid  *)
(* rate is computed exactly.  xirr.xirr, scipy's brentq and npf.irr are    *)
(* libraries outside the repository: each call takes any of the outcomes   *)
(* its call site handles or passes on.                                     *)
(***************************************************************************)
GridPoints == 200           \* np.linspace(-0.95, 3.0, 200)
YearDays == 365             \* days_frac: days / 365.0

\* lib: the entries with float(val) != 0
Lib(ser) == SelectSeq(ser, LAMBDA e : e.v # 0)

\* not (np.any(cfs > 0) and np.any(cfs < 0))
NoSignChange(lib) ==
    ~((\E j \in 1..Len(lib) : lib[j].v > 0) /\ (\E j \in 1..Len(lib) : lib[j].v < 0))

\* _xirr_fallback returns None before the grid: not cashflows, fewer than
\* two entries, or no positive or no negative flow
FallbackDegenerate(lib) == Len(lib) < 2 \/ NoSignChange(lib)

\* days_frac(d) = (d - t0).days / 365.0, t0 the earliest date of lib
YearsFrom(lib, j) == (lib[j].day - lib[1].day) \div YearDays

\* 1 + grid[i] = 0.05 + i * 3.95 / 199 = (199 + 79 i) / 3980, i = 0..199
OnePlusNum(i) == 199 + 79 * i
OnePlusDen == 3980

\* npv(grid[i]) times (1 + grid[i]) ** T, T the last entry's years: a positive
\* multiple of sum(cfs / (1 + r) ** ts), so of the same sign
NpvScaled(lib, i) ==
    LET T == YearsFrom(lib, Len(lib))
    IN SumTo([j \in 1..Len(lib) |->
                 lib[j].v * Pow(OnePlusNum(i), T - YearsFrom(lib, j))
                          * Pow(OnePlusDen, YearsFrom(lib, j))],
             1, Len(lib))

Sign(x) == IF x > 0 THEN 1 ELSE IF x < 0 THEN 0 - 1 ELSE 0

\* npv(grid[i]) * npv(grid[i + 1]) < 0
SignChange(lib, i) == Sign(NpvScaled(lib, i)) * Sign(NpvScaled(lib, i + 1)) < 0

\* for i in range(len(grid) - 1)
FirstPair == 0
PairCount == GridPoints - 1
\* (variant: the loop steps over every other pair)
NextPair_Skip(i) == i + 2
NextPair(i) == i + 1

Pending == [k |-> "pending"]
\* a finite rate and the solver that found it (pair: the grid pair of a
\* brentq root, -1 otherwise)
Rate(tier, pair) == [k |-> "rate", tier |-> tier, pair |-> pair]

\* the three cash flows of a series, a year apart
SeriesDays == <<0, YearDays, 2 * YearDays>>
SeriesSet ==
    {[j \in 1..3 |-> [day |-> SeriesDays[j], v |-> vals[j]]] :
        vals \in [1..3 -> (0 - MaxAmt)..MaxAmt]}

IrrIdle ==
    /\ series = <<>>
    /\ irr_pc = "idle"
    /\ calls = <<>>
    /\ primary = "pending"
    /\ scan_i = 0 - 1
    /\ failed = {}
    /\ fb = Pending
    /\ result = Pending

ProformaIdle ==
    /\ a = [absent |-> {}]
    /\ pc = "idle"
    /\ monthly_cf = <<>>
    /\ equity_cf = <<>>
    /\ metrics = NoValue

\* no call of generate_return_metrics made by the caller
CallsIdle ==
    /\ dicts = <<>>
    /\ returned = <<>>
    /\ memo = {}

\* run_owned_pipeline not entered
PipeIdle ==
    /\ pl_pc = "idle"
    /\ portfolio_id = 0
    /\ property_id = None
    /\ acquisition_id = None
    /\ db = [properties |-> {}, acquisition_data |-> {}, proforma_data |-> {}]
    /\ steps = <<>>

InitIrr ==
    /\ ProformaIdle
    /\ CallsIdle
    /\ PipeIdle
    /\ series \in SeriesSet
    /\ irr_pc = "start"
    /\ calls = <<>>
    /\ primary = "pending"
    /\ scan_i = 0 - 1
    /\ failed = {}
    /\ fb = Pending
    /\ result = Pending

\* try: return xirr.xirr(lib) -- the library returns a rate, None or a
\* non-finite float, and _calc_xirr returns it as it is
XirrReturns ==
    /\ irr_pc = "start"
    /\ \E out \in {"rate", "none", "nonfinite"} :
          /\ primary' = out
          /\ result' = IF out = "rate" THEN Rate("xirr", 0 - 1)
                       ELSE IF out = "none" THEN Null
                       ELSE NonFinite
    /\ calls' = Append(calls, "xirr")
    /\ irr_pc' = "done"
    /\ UNCHANGED <<series, scan_i, failed, fb>>
    /\ UNCHANGED proformaVars
    /\ UNCHANGED <<callVars, pipeVars>>

\* except Exception: fb = _xirr_fallback(lib)
XirrRaises ==
    /\ irr_pc = "start"
    /\ primary' = "raise"
    /\ calls' = Append(calls, "xirr")
    /\ irr_pc' = "fallback"
    /\ UNCHANGED <<series, scan_i, failed, fb, result>>
    /\ UNCHANGED proformaVars
    /\ UNCHANGED <<callVars, pipeVars>>

\* _xirr_fallback returns None at its first or its second test
FallbackReturnsEarly ==
    /\ irr_pc = "fallback"
    /\ FallbackDegenerate(Lib(series))
    /\ calls' = Append(calls, "fallback")
    /\ fb' = Null
    /\ irr_pc' = "periodic"
    /\ UNCHANGED <<series, primary, scan_i, failed, result>>
    /\ UNCHANGED proformaVars
    /\ UNCHANGED <<callVars, pipeVars>>

\* _xirr_fallback reaches the grid loop
FallbackScanStart ==
    /\ irr_pc = "fallback"
    /\ ~FallbackDegenerate(Lib(series))
    /\ calls' = Append(calls, "fallback")
    /\ scan_i' = FirstPair
    /\ irr_pc' = "scan"
    /\ UNCHANGED <<series, primary, failed, fb, result>>
    /\ UNCHANGED proformaVars
    /\ UNCHANGED <<callVars, pipeVars>>

\* the pair i shows no sign change: next i
ScanNoSignChange ==
    /\ irr_pc = "scan"
    /\ scan_i < PairCount
    /\ ~SignChange(Lib(series), scan_i)
    /\ scan_i' = NextPair(scan_i)
    /\ UNCHANGED <<series, irr_pc, calls, primary, failed, fb, result>>
    /\ UNCHANGED proformaVars
    /\ UNCHANGED <<callVars, pipeVars>>

\* sign change at pair i and brentq converges: return float(root); fb is
\* not None, so _calc_xirr returns it
ScanBrentqConverges ==
    /\ irr_pc = "scan"
    /\ scan_i < PairCount
    /\ SignChange(Lib(series), scan_i)
    /\ fb' = Rate("grid", scan_i)
    /\ result' = Rate("grid", scan_i)
    /\ irr_pc' = "done"
    /\ UNCHANGED <<series, calls, primary, scan_i, failed>>
    /\ UNCHANGED proformaVars
    /\ UNCHANGED <<callVars, pipeVars>>

\* sign change at pair i and brentq raises: except Exception: continue
ScanBrentqRaises ==
    /\ irr_pc = "scan"
    /\ scan_i < PairCount
    /\ SignChange(Lib(series), scan_i)
    /\ failed' = failed \cup {scan_i}
    /\ scan_i' = NextPair(scan_i)
    /\ UNCHANGED <<series, irr_pc, calls, primary, fb, result>>
    /\ UNCHANGED proformaVars
    /\ UNCHANGED <<callVars, pipeVars>>

\* the loop ends: return None
ScanExhausted ==
    /\ irr_pc = "scan"
    /\ scan_i >= PairCount
    /\ fb' = Null
    /\ irr_pc' = "periodic"
    /\ UNCHANGED <<series, calls, primary, scan_i, failed, result>>
    /\ UNCHANGED proformaVars
    /\ UNCHANGED <<callVars, pipeVars>>

\* irr_m = npf.irr(series.values);
\* return (1 + irr_m) ** 12 - 1 if irr_m else None; except Exception: None.
\* npf.irr gives a rate, 0.0 (falsy), nan (truthy: (1 + nan) ** 12 - 1 is
\* nan), or raises.
PeriodicIrr ==
    /\ irr_pc = "periodic"
    /\ \E out \in {"rate", "zero", "nan", "raise"} :
          result' = IF out = "rate" THEN Rate("periodic", 0 - 1)
                    ELSE IF out = "nan" THEN NonFinite
                    ELSE Null
    /\ calls' = Append(calls, "periodic")
    /\ irr_pc' = "done"
    /\ UNCHANGED <<series, primary, scan_i, failed, fb>>
    /\ UNCHANGED proformaVars
    /\ UNCHANGED <<callVars, pipeVars>>

NextIrr ==
    \/ XirrReturns
    \/ XirrRaises
    \/ FallbackReturnsEarly
    \/ FallbackScanStart
    \/ ScanNoSignChange
    \/ ScanBrentqConverges
    \/ ScanBrentqRaises
    \/ ScanExhausted
    \/ PeriodicIrr

SpecIrr == InitIrr /\ [][NextIrr]_vars

(***************************************************************************)
(* The assumption records the model draws.                                 *)
(***************************************************************************)
CloseDates ==
    {[y |-> 2023, m |-> 1, d |-> 31],
     [y |-> 2023, m |-> 12, d |-> 31],
     [y |-> 2024, m |-> 1, d |-> 30],
     [y |-> 2024, m |-> 2, d |-> 1],
     [y |-> 2024, m |-> 3, d |-> 31],
     [y |-> 2024, m |-> 12, d |-> 15]}

\* the keys a record may lack
OptionalKeys == {"purchase_price", "ltv", "closing_costs"}

\* hold periods over which a non-zero monthly rate stays within TLC's integers
MaxInterestMonths == 24

Records ==
    [absent : SUBSET OptionalKeys,
     date_of_close : CloseDates,
     hold_period_years : 0..MaxHoldYears,
     purchase_price : {0, 327600},
     closing_costs : {<<0, 1>>, <<1, 100>>},
     rent_immediately_after_purchase : {0, 6000},
     vacancy_immediately_after_purchase : {<<5, 100>>},
     other_income_immediately_after_purchase : {200},
     operating_expenses_after_purchase : {0, 3000},
     capital_expense_after_purchase : {500},
     expected_rent_growth : {1},
     expected_expense_growth : {0, 1},
     expected_capex_growth : {1},
     exit_cap_rate_expectation : {<<0, 1>>, <<5, 100>>},
     cost_of_sale_percentage : {<<5, 100>>},
     ltv : {<<0, 1>>, <<1, 1>>},
     interest_rate : {0, 12},
     amortization_years : {1, 3}]

\* an absent key's field is the placeholder, so that a dict is one record
Canonical(rec) ==
    /\ "purchase_price" \in rec.absent => rec["purchase_price"] = 0
    /\ "ltv" \in rec.absent => rec["ltv"] = <<0, 1>>
    /\ "closing_costs" \in rec.absent => rec["closing_costs"] = <<0, 1>>

\* every product and quotient of the engine is an integer on rec, and stays
\* within TLC's integers
Exact(rec) ==
    /\ TimesExact(PurchasePrice(rec), Ltv(rec))
    /\ TimesExact(PurchasePrice(rec), ClosingCostsFraction(rec))
    /\ TimesExact(RentBase(rec), Vacancy(rec))
    /\ rec["interest_rate"] % 12 = 0
    /\ MonthlyRate(rec) = 0 => LoanAmount(rec) % Nper(rec) = 0
    /\ MonthlyRate(rec) # 0 =>
          /\ Nper(rec) = 12
          /\ HoldMonths(rec) <= MaxInterestMonths
          /\ LoanAmount(rec) % (Pow(1 + MonthlyRate(rec), 12) - 1) = 0

(***************************************************************************)
(* generate_return_metrics(data): data_clean holds the numbers of data as  *)
(* floats; build_proforma(data_clean); the metrics dict; the rounding.     *)
(***************************************************************************)
Init ==
    /\ a \in Records
    /\ Canonical(a)
    /\ Exact(a)
    /\ pc = "start"
    /\ monthly_cf = <<>>
    /\ equity_cf = <<>>
    /\ metrics = NoValue
    /\ IrrIdle
    /\ CallsIdle
    /\ PipeIdle

\* monthly_cf, equity_cf = build_proforma(data_clean)
BuildProforma ==
    /\ pc = "start"
    /\ monthly_cf' = MonthlyRows(a)
    /\ equity_cf' = EquityEvents(a, MonthlyRows(a))
    /\ pc' = "built"
    /\ UNCHANGED <<a, metrics>>
    /\ UNCHANGED irrVars
    /\ UNCHANGED <<callVars, pipeVars>>

\* the metrics dict, the derived sale data, the rounding, the return
ComputeMetrics ==
    /\ pc = "built"
    /\ ~KeyErrorRaised(a)
    /\ \E uirr \in IrrResults, lirr \in IrrResults :
          metrics' = MetricsRecord(a, monthly_cf, equity_cf, uirr, lirr)
    /\ pc' = "done"
    /\ UNCHANGED <<a, monthly_cf, equity_cf>>
    /\ UNCHANGED irrVars
    /\ UNCHANGED <<callVars, pipeVars>>

\* a helper subscripts a key the dict does not hold: KeyError leaves
\* generate_return_metrics
MetricsKeyError ==
    /\ pc = "built"
    /\ KeyErrorRaised(a)
    /\ pc' = "raised"
    /\ UNCHANGED <<a, monthly_cf, equity_cf, metrics>>
    /\ UNCHANGED irrVars
    /\ UNCHANGED <<callVars, pipeVars>>

Next == BuildProforma \/ ComputeMetrics \/ MetricsKeyError

Spec == Init /\ [][Next]_vars

(***************************************************************************)
(* Properties of build_proforma.                                           *)
(***************************************************************************)
Built == pc \in {"built", "done", "raised"}

IsMonthEnd(dt) == dt.d = DaysInMonth(dt.y, dt.m)

\* q is the month end of the calendar month after p's
NextMonthEnd(p, q) ==
    /\ MonthIndex(q) = MonthIndex(p) + 1
    /\ IsMonthEnd(q)
    /\ DateLT(p, q)

\* C1: with hold_period_years = H >= 1, the monthly schedule build_proforma
\* returns has exactly 12*H rows, MonthNum runs 1..12*H, and each row's date
\* is one calendar month after the row before it (month end to month end,
\* strictly increasing).
C1_ScheduleLengthAndDates ==
    (Built /\ a["hold_period_years"] >= 1) =>
        /\ Len(monthly_cf) = 12 * a["hold_period_years"]
        /\ \A t \in 1..Len(monthly_cf) : monthly_cf[t].MonthNum = t
        /\ \A t \in 1..(Len(monthly_cf) - 1) :
              /\ IsMonthEnd(monthly_cf[t].Date)
              /\ NextMonthEnd(monthly_cf[t].Date, monthly_cf[t + 1].Date)

C1_Witness ==
    /\ pc = "built"
    /\ a["hold_period_years"] = 2
    /\ a["date_of_close"] = [y |-> 2024, m |-> 1, d |-> 30]
    /\ Len(monthly_cf) = 24
    /\ monthly_cf[1].Date = [y |-> 2024, m |-> 2, d |-> 29]
    /\ monthly_cf[24].Date = [y |-> 2026, m |-> 1, d |-> 31]

\* C2: the equity series has hold_months + 1 events, the first dated
\* date_of_close, the last dated the last monthly row's date, and the event
\* dates are strictly increasing (no date occurs twice; the close date is
\* no monthly date).
C2_EquitySeriesShape ==
    Built =>
        /\ Len(equity_cf) = 12 * a["hold_period_years"] + 1
        /\ equity_cf[1].Date = a["date_of_close"]
        /\ Len(monthly_cf) >= 1 =>
              equity_cf[Len(equity_cf)].Date = monthly_cf[Len(monthly_cf)].Date
        /\ \A i \in 1..(Len(equity_cf) - 1) :
              DateLT(equity_cf[i].Date, equity_cf[i + 1].Date)
        /\ \A i \in 1..Len(equity_cf) : \A j \in 1..Len(equity_cf) :
              i # j => equity_cf[i].Date # equity_cf[j].Date
        /\ \A t \in 1..Len(monthly_cf) : monthly_cf[t].Date # a["date_of_close"]

C2_Witness ==
    /\ pc = "built"
    /\ a["date_of_close"] = [y |-> 2023, m |-> 12, d |-> 31]
    /\ Len(equity_cf) = 25
    /\ equity_cf[2].Date = [y |-> 2024, m |-> 1, d |-> 31]
    /\ equity_cf[25].Date = monthly_cf[24].Date

\* the claim's quantities, written from the stored rows
C3_TrailingNoi ==
    LET n == Len(monthly_cf)
        F[i \in 0..n] ==
            IF i = 0 THEN 0
            ELSE F[i - 1] + (IF i > n - 12 THEN monthly_cf[i].NetOperatingIncome ELSE 0)
    IN F[n]

C3_PrincipalPaid ==
    LET n == Len(monthly_cf)
        F[i \in 0..n] ==
            IF i = 0 THEN 0 ELSE F[i - 1] + (0 - monthly_cf[i].PrincipalPayment)
    IN F[n]

C3_SalePrice ==
    IF ExitCap(a)[1] = 0 THEN 0
    ELSE (C3_TrailingNoi * ExitCap(a)[2]) \div ExitCap(a)[1]

C3_SaleCost == (C3_SalePrice * CostOfSale(a)[1]) \div CostOfSale(a)[2]

C3_LoanPayoff == Max(LoanAmount(a) - C3_PrincipalPaid, 0)

\* C3: the close event is unlevered = -(price + price*closing_costs) and
\* levered = unlevered + price*ltv; the events of months 1..hold_months-1
\* are the rows' cash flows before / after debt service; the last month's
\* event is its own row's cash flows plus sale_price - sale_cost (unlevered)
\* and sale_price - sale_cost - loan_payoff (levered), on that same event,
\* with sale_price = trailing 12-row NOI / exit_cap_rate (0 when the rate is
\* 0) and loan_payoff = max(loan - principal paid, 0).
C3_EquityEventValues ==
    (Built /\ Len(monthly_cf) >= 1) =>
        LET n == Len(monthly_cf)
            price == PurchasePrice(a)
            closing == (price * ClosingCostsFraction(a)[1]) \div ClosingCostsFraction(a)[2]
            loan == (price * Ltv(a)[1]) \div Ltv(a)[2]
        IN /\ Len(equity_cf) = n + 1
           /\ equity_cf[1].UnleveredCashFlow = 0 - (price + closing)
           /\ equity_cf[1].LeveredCashFlow = equity_cf[1].UnleveredCashFlow + loan
           /\ \A t \in 1..(n - 1) :
                 /\ equity_cf[t + 1].Date = monthly_cf[t].Date
                 /\ equity_cf[t + 1].UnleveredCashFlow = monthly_cf[t].CashFlowBeforeDebtService
                 /\ equity_cf[t + 1].LeveredCashFlow = monthly_cf[t].CashFlowAfterDebtService
           /\ equity_cf[n + 1].Date = monthly_cf[n].Date
           /\ equity_cf[n + 1].UnleveredCashFlow =
                 monthly_cf[n].CashFlowBeforeDebtService + (C3_SalePrice - C3_SaleCost)
           /\ equity_cf[n + 1].LeveredCashFlow =
                 monthly_cf[n].CashFlowAfterDebtService
                    + (C3_SalePrice - C3_SaleCost - C3_LoanPayoff)

\* a two-year hold whose expenses stop after month 1 (the trailing NOI is
\* not the first year's), a sale, and a loan not yet repaid at the sale
C3_Witness ==
    /\ pc = "built"
    /\ Len(monthly_cf) = 24
    /\ C3_SalePrice > 0
    /\ C3_LoanPayoff > 0
    /\ monthly_cf[1].NetOperatingIncome # monthly_cf[24].NetOperatingIncome
    /\ equity_cf[25].LeveredCashFlow # monthly_cf[24].CashFlowAfterDebtService

\* C4: with hold_period_years <= 0 the computation fails before any
\* projection: neither build_proforma nor generate_return_metrics returns.
C4_NoZeroLengthSchedule ==
    a["hold_period_years"] <= 0 => pc \notin {"built", "done"}

\* C10: with loan_amount = purchase_price * ltv = 0, every row has
\* InterestPayment = 0 and PrincipalPayment = 0 and so the same cash flow
\* after as before debt service, loan_payoff is 0, and the levered equity
\* series equals the unlevered one event for event.
C10_NoLoanNoDebtService ==
    (Built /\ LoanAmount(a) = 0) =>
        /\ \A t \in 1..Len(monthly_cf) :
              /\ monthly_cf[t].InterestPayment = 0
              /\ monthly_cf[t].PrincipalPayment = 0
              /\ monthly_cf[t].CashFlowAfterDebtService
                    = monthly_cf[t].CashFlowBeforeDebtService
        /\ C3_LoanPayoff = 0
        /\ \A i \in 1..Len(equity_cf) :
              equity_cf[i].LeveredCashFlow = equity_cf[i].UnleveredCashFlow

C10_Witness ==
    /\ pc = "built"
    /\ PurchasePrice(a) > 0
    /\ LoanAmount(a) = 0
    /\ Len(monthly_cf) = 24
    /\ C3_SalePrice > 0

(***************************************************************************)
(* Properties of generate_return_metrics.                                  *)
(***************************************************************************)
Returned == pc \in {"done", "raised"}

\* the denominators as the projector computes them
C5_EquityInvested == PurchasePrice(a) - LoanAmount(a) + ClosingCosts(a)
C5_DebtService12 == TotalDebtService12(monthly_cf)

C5_SomeZeroDenominator ==
    \/ PurchasePrice(a) = 0
    \/ LoanAmount(a) = 0
    \/ IsZero(ExitCap(a))
    \/ C5_EquityInvested = 0
    \/ C5_DebtService12 = 0

C5_NullWhereZero ==
    /\ PurchasePrice(a) = 0 =>
          /\ metrics["going_in_cap_rate"] = Null
          /\ metrics["avg_unlevered_coc"] = Null
    /\ LoanAmount(a) = 0 =>
          /\ metrics["loan_constant"] = Null
          /\ metrics["going_in_debt_yield"] = Null
    /\ IsZero(ExitCap(a)) => metrics["exit_ltv"] = Null
    /\ C5_EquityInvested = 0 => metrics["avg_levered_coc"] = Null
    /\ C5_DebtService12 = 0 => metrics["going_in_dscr"] = Null

\* C5: whenever one of purchase_price, loan_amount, exit_cap_rate,
\* equity_invested, first-12-month debt service is zero,
\* generate_return_metrics completes without raising and the metric that
\* divides by the zero denominator is null.
C5_ZeroDenominatorsGiveNull ==
    (Returned /\ C5_SomeZeroDenominator) => (pc = "done" /\ C5_NullWhereZero)

\* the same, over the records that hold every key the helpers subscript
C5_GuardsOnCompleteRecords ==
    (pc = "done" /\ C5_SomeZeroDenominator /\ a.absent = {}) => C5_NullWhereZero

(***************************************************************************)
(* Properties of the IRR solver.                                           *)
(***************************************************************************)
\* the non-zero entries are all positive or all negative, or fewer than two
C6_Degenerate ==
    LET nz == {j \in 1..Len(series) : series[j].v # 0}
    IN \/ Cardinality(nz) < 2
       \/ \A j \in nz : series[j].v > 0
       \/ \A j \in nz : series[j].v < 0

\* C6: for a series whose non-zero entries are all of one sign, or fewer
\* than two, _calc_xirr returns null at once: no solver is called.
C6_DegenerateReturnsNullAtOnce ==
    (irr_pc # "idle" /\ C6_Degenerate) =>
        /\ calls = <<>>
        /\ irr_pc = "done" => result = Null

\* C7: the grid search is run whenever the primary solver gives no rate
\* (it raises or returns no value); a root it finds is the value returned;
\* the periodic tier is called only after the grid search returned no root.
C7_TierOrder ==
    irr_pc = "done" =>
        /\ primary \in {"raise", "none"} =>
              \E n \in 1..Len(calls) : calls[n] = "fallback"
        /\ fb.k = "rate" => result = fb
        /\ \A n \in 1..Len(calls) :
              calls[n] = "periodic" =>
                 /\ fb = Null
                 /\ \E n2 \in 1..(n - 1) : calls[n2] = "fallback"

\* the part of C7 that the code keeps: the order after a raise
C7_OrderAfterRaise ==
    irr_pc = "done" =>
        /\ primary = "raise" => \E n \in 1..Len(calls) : calls[n] = "fallback"
        /\ fb.k = "rate" => result = fb
        /\ \A n \in 1..Len(calls) :
              calls[n] = "periodic" =>
                 /\ fb = Null
                 /\ \E n2 \in 1..(n - 1) : calls[n2] = "fallback"

\* every pair below i was examined: it shows no sign change, or its
\* bracketed search failed
C8_AllBelowSettled(i) ==
    \A j \in 0..(i - 1) : SignChange(Lib(series), j) => j \in failed

\* C8: the fallback examines the 199 adjacent pairs of the 200 grid rates in
\* ascending order and returns the root of the first pair at which NPV
\* changes sign and the bracketed search converges: the lowest such pair
\* wins, a pair whose search fails is passed over for the next higher one,
\* and None is returned only when all 199 pairs are settled.
C8_LowestBracketWins ==
    /\ irr_pc = "scan" =>
          /\ scan_i \in 0..(GridPoints - 1)
          /\ C8_AllBelowSettled(scan_i)
    /\ fb.k = "rate" =>
          /\ fb.pair \in 0..(GridPoints - 2)
          /\ SignChange(Lib(series), fb.pair)
          /\ fb.pair \notin failed
          /\ C8_AllBelowSettled(fb.pair)
    /\ (fb = Null /\ scan_i # 0 - 1) =>
          /\ scan_i = GridPoints - 1
          /\ C8_AllBelowSettled(GridPoints - 1)
    /\ \A j \in failed : SignChange(Lib(series), j)

\* NPV changes sign at two pairs, the lower one's search failed and the
\* higher one's root is returned
C8_Witness ==
    /\ irr_pc = "done"
    /\ result.k = "rate"
    /\ result.tier = "grid"
    /\ failed # {}
    /\ \A j \in failed : j < result.pair

\* NPV changes sign at two pairs and the lower one's root is returned
C8_WitnessLowest ==
    /\ irr_pc = "done"
    /\ result.k = "rate"
    /\ result.tier = "grid"
    /\ failed = {}
    /\ \E j \in (result.pair + 1)..(GridPoints - 2) : SignChange(Lib(series), j)

\* C9: _calc_xirr returns a finite rate or null, never a non-finite value
\* (and never raises).
C9_FiniteOrNull ==
    irr_pc = "done" => (result = Null \/ result.k = "rate")


(***************************************************************************)
(* Properties of the metrics record against the builder's values.          *)
(***************************************************************************)
\* a metric value is the number n
IsNumber(v, n) == v.k = "num" /\ v.n = n * v.d

\* C11: with loan_amount > 0 (and payments <= 0), loan_constant is the
\* absolute value of the first-12-month debt service over loan_amount, so
\* it is non-negative; with loan_amount = 0 it is null.
C11_LoanConstantNonNegative ==
    pc = "done" =>
        /\ LoanAmount(a) > 0 =>
              /\ metrics["loan_constant"].k = "num"
              /\ metrics["loan_constant"].n >= 0
              /\ metrics["loan_constant"] =
                    Round6(Ratio(Abs(TotalDebtService12(monthly_cf)), LoanAmount(a)))
        /\ LoanAmount(a) = 0 => metrics["loan_constant"] = Null

\* C12: projected_sale_price is the builder's sale_price (trailing 12-month
\* NOI over exit_cap_rate) and net_sale_proceeds is what the builder adds
\* to the terminal levered event: sale_price - sale_cost - loan_payoff.
C12_SaleDataFromBuilder ==
    pc = "done" =>
        /\ IsNumber(metrics["projected_sale_price"], C3_SalePrice)
        /\ IsNumber(metrics["net_sale_proceeds"],
                    C3_SalePrice - C3_SaleCost - C3_LoanPayoff)

\* C13: for a record that lacks a numeric field, generate_return_metrics
\* returns (no exception) and the metric formulas read the value the
\* projector read: the same purchase_price, ltv and closing costs.
C13_AbsentFieldsDefaulted ==
    (Returned /\ a.absent # {}) =>
        /\ pc = "done"
        /\ Get(a, "closing_costs", <<0, 1>>) = ClosingCostsFraction(a)
        /\ Get(a, "ltv", <<0, 1>>) = Ltv(a)

\* principal paid through month t, as a positive amount
C16_PrincipalPaidThrough(t) == 0 - ColSum(monthly_cf, "PrincipalPayment", 1, t)

\* C16: with loan_amount > 0 the principal paid through any month never
\* exceeds loan_amount, and every month after the amortization term
\* (MonthNum > amortization_years * 12) has InterestPayment = 0 and
\* PrincipalPayment = 0.
C16_NoPaymentOnRepaidLoan ==
    (Built /\ LoanAmount(a) > 0) =>
        \A t \in 1..Len(monthly_cf) :
            /\ C16_PrincipalPaidThrough(t) <= LoanAmount(a)
            /\ t > Nper(a) =>
                  /\ monthly_cf[t].InterestPayment = 0
                  /\ monthly_cf[t].PrincipalPayment = 0

\* C17: the equity_invested of avg_levered_coc is the equity paid at close:
\* purchase_price - loan_amount + closing_costs as the projector computed
\* them, the negative of the close-date levered cash flow.
C17_EquityInvestedIsEquityPaid ==
    pc = "done" =>
        /\ EquityInvested(a) = PurchasePrice(a) - LoanAmount(a) + ClosingCosts(a)
        /\ Len(monthly_cf) >= 1 =>
              EquityInvested(a) = 0 - equity_cf[1].LeveredCashFlow


(***************************************************************************)
(* ingestion/owned_processor.py: run_owned_pipeline(conn, portfolio_id,    *)
(* data).  db holds the rows committed to each table; an insert either     *)
(* commits its row and returns cursor.lastrowid, or raises inside its try  *)
(* block, rolls back and returns None.                                     *)
(***************************************************************************)
MaxId == 3                  \* ids (portfolio ids, lastrowid) lie in 0..MaxId

\* (variant: the pipeline goes on whatever the insert returned)
AfterInsert_NoStop(id, next) == next
\* if not id: return
AfterInsert(id, next) == IF id = None \/ id = 0 THEN "stopped" ELSE next

InitPipeline ==
    /\ ProformaIdle
    /\ IrrIdle
    /\ CallsIdle
    /\ pl_pc = "step1"
    /\ portfolio_id \in 1..MaxId
    /\ property_id = None
    /\ acquisition_id = None
    /\ db = [properties |-> {}, acquisition_data |-> {}, proforma_data |-> {}]
    /\ steps = <<>>

\* insert_property: execute and commit succeed, lastrowid is returned
InsertPropertyCommits ==
    /\ pl_pc = "step1"
    /\ \E id \in 0..MaxId :
          /\ db' = [db EXCEPT !.properties =
                        @ \cup {[id |-> id, portfolio_id |-> portfolio_id]}]
          /\ property_id' = id
          /\ pl_pc' = AfterInsert(id, "step2")
    /\ steps' = Append(steps, "property_commit")
    /\ UNCHANGED <<portfolio_id, acquisition_id>>
    /\ UNCHANGED <<proformaVars, irrVars, callVars>>

\* insert_property: execute or commit raises; rollback, None is returned
InsertPropertyFails ==
    /\ pl_pc = "step1"
    /\ property_id' = None
    /\ pl_pc' = AfterInsert(None, "step2")
    /\ steps' = Append(steps, "property_rollback")
    /\ UNCHANGED <<portfolio_id, acquisition_id, db>>
    /\ UNCHANGED <<proformaVars, irrVars, callVars>>

\* insert_acquisition_data: execute and commit succeed
InsertAcquisitionCommits ==
    /\ pl_pc = "step2"
    /\ \E id \in 0..MaxId :
          /\ db' = [db EXCEPT !.acquisition_data =
                        @ \cup {[id |-> id, property_id |-> property_id]}]
          /\ acquisition_id' = id
          /\ pl_pc' = AfterInsert(id, "step3")
    /\ steps' = Append(steps, "acquisition_commit")
    /\ UNCHANGED <<portfolio_id, property_id>>
    /\ UNCHANGED <<proformaVars, irrVars, callVars>>

\* insert_acquisition_data: execute or commit raises; rollback, None
InsertAcquisitionFails ==
    /\ pl_pc = "step2"
    /\ acquisition_id' = None
    /\ pl_pc' = AfterInsert(None, "step3")
    /\ steps' = Append(steps, "acquisition_rollback")
    /\ UNCHANGED <<portfolio_id, property_id, db>>
    /\ UNCHANGED <<proformaVars, irrVars, callVars>>

\* metrics = generate_return_metrics(data) returns
MetricsReturned ==
    /\ pl_pc = "step3"
    /\ pl_pc' = "insert3"
    /\ steps' = Append(steps, "metrics")
    /\ UNCHANGED <<portfolio_id, property_id, acquisition_id, db>>
    /\ UNCHANGED <<proformaVars, irrVars, callVars>>

\* generate_return_metrics(data) raises: the exception leaves the pipeline
MetricsRaised ==
    /\ pl_pc = "step3"
    /\ pl_pc' = "failed"
    /\ steps' = Append(steps, "metrics")
    /\ UNCHANGED <<portfolio_id, property_id, acquisition_id, db>>
    /\ UNCHANGED <<proformaVars, irrVars, callVars>>

\* insert_proforma_data: execute and commit succeed
InsertProformaCommits ==
    /\ pl_pc = "insert3"
    /\ db' = [db EXCEPT !.proforma_data = @ \cup {[property_id |-> property_id]}]
    /\ pl_pc' = "complete"
    /\ steps' = Append(steps, "proforma_commit")
    /\ UNCHANGED <<portfolio_id, property_id, acquisition_id>>
    /\ UNCHANGED <<proformaVars, irrVars, callVars>>

\* insert_proforma_data: execute or commit raises; rollback, the pipeline
\* still reports completion
InsertProformaFails ==
    /\ pl_pc = "insert3"
    /\ pl_pc' = "complete"
    /\ steps' = Append(steps, "proforma_rollback")
    /\ UNCHANGED <<portfolio_id, property_id, acquisition_id, db>>
    /\ UNCHANGED <<proformaVars, irrVars, callVars>>

NextPipeline ==
    \/ InsertPropertyCommits
    \/ InsertPropertyFails
    \/ InsertAcquisitionCommits
    \/ InsertAcquisitionFails
    \/ MetricsReturned
    \/ MetricsRaised
    \/ InsertProformaCommits
    \/ InsertProformaFails

SpecPipeline == InitPipeline /\ [][NextPipeline]_vars

(***************************************************************************)
(* Properties of run_owned_pipeline.                                       *)
(***************************************************************************)
C18_Rank(step) ==
    IF step \in {"property_commit", "property_rollback"} THEN 1
    ELSE IF step \in {"acquisition_commit", "acquisition_rollback"} THEN 2
    ELSE IF step = "metrics" THEN 3
    ELSE 4

C18_PropertyFailed ==
    Len(steps) >= 1 /\ (steps[1] = "property_rollback" \/ property_id \in {None, 0})

C18_AcquisitionFailed ==
    Len(steps) >= 2 /\ (steps[2] = "acquisition_rollback" \/ acquisition_id \in {None, 0})

\* C18: the steps run in the order property insert, acquisition insert,
\* metrics generation, proforma insert; a proforma_data row exists only
\* after the property row and the acquisition row were committed; after a
\* failed property insert no later step runs, after a failed acquisition
\* insert neither the metrics generation nor the proforma insert runs.
C18_PipelineOrder ==
    /\ \A n \in 1..Len(steps) : C18_Rank(steps[n]) = n
    /\ (db.proforma_data # {} \/ (Len(steps) = 4 /\ steps[4] = "proforma_commit")) =>
          /\ steps[1] = "property_commit"
          /\ steps[2] = "acquisition_commit"
          /\ steps[3] = "metrics"
          /\ db.properties # {}
          /\ db.acquisition_data # {}
          /\ \A row \in db.proforma_data :
                \E p \in db.properties : p.id = row.property_id
    /\ C18_PropertyFailed => (Len(steps) = 1 /\ db.acquisition_data = {})
    /\ C18_AcquisitionFailed => (Len(steps) = 2 /\ db.proforma_data = {})

\* the pipeline ran to the end and the proforma row was committed
C18_Witness ==
    /\ pl_pc = "complete"
    /\ steps = <<"property_commit", "acquisition_commit", "metrics", "proforma_commit">>
    /\ db.proforma_data # {}

\* the acquisition insert failed after a committed property row
C18_WitnessStopped ==
    /\ pl_pc = "stopped"
    /\ steps = <<"property_commit", "acquisition_rollback">>
    /\ db.properties # {}


(***************************************************************************)
(* A caller of generate_return_metrics.  It holds two dicts and passes     *)
(* either of them, any number of times and in any order.  One call is one  *)
(* step: data_clean = data.copy(), build_proforma(data_clean), the         *)
(* metrics.  The IRR libraries are functions of the series they are given: *)
(* memo keeps what they gave for each series so far.                       *)
(***************************************************************************)
MaxCalls == 3

\* the dicts the caller may hold
CallRecords ==
    {rec \in Records :
        /\ Canonical(rec)
        /\ Exact(rec)
        /\ rec.absent \subseteq {"purchase_price", "closing_costs"}
        /\ rec["date_of_close"] = [y |-> 2024, m |-> 1, d |-> 30]
        /\ rec["hold_period_years"] = 1
        /\ rec["closing_costs"] # <<0, 1>> \/ "closing_costs" \in rec.absent
        /\ rec["rent_immediately_after_purchase"] # 0
        /\ rec["operating_expenses_after_purchase"] # 0
        /\ rec["expected_expense_growth"] = 1
        /\ ~IsZero(rec["exit_cap_rate_expectation"])
        /\ rec["interest_rate"] = 0
        /\ rec["amortization_years"] = 1}

\* (variant: the defaults of the absent keys are written into the dict passed)
CallerDictAfter_Filled(data) == [data EXCEPT !.absent = {}]
\* the dict passed, after the call: every write goes to the copy data_clean,
\* and build_proforma and the helpers only read it
CallerDictAfter(data) == data

\* eq[col] as _calc_xirr receives it
IrrSeries(eq, col) == [i \in 1..Len(eq) |-> [Date |-> eq[i].Date, v |-> eq[i][col]]]

\* one outcome per series
Functional(S) == \A p \in S, q \in S : p[1] = q[1] => p[2] = q[2]

Raised == [k |-> "raised"]

InitCalls ==
    /\ ProformaIdle
    /\ IrrIdle
    /\ PipeIdle
    /\ dicts \in [{"d", "e"} -> CallRecords]
    /\ returned = <<>>
    /\ memo = {}

\* generate_return_metrics(dicts[which]) returns its metrics
CallReturns ==
    /\ Len(returned) < MaxCalls
    /\ \E which \in DOMAIN dicts :
          LET data == dicts[which]
              df == MonthlyRows(data)
              eq == EquityEvents(data, df)
          IN /\ ~KeyErrorRaised(data)
             /\ \E uirr \in IrrResults, lirr \in IrrResults :
                   LET memo2 == memo \cup {<<IrrSeries(eq, "UnleveredCashFlow"), uirr>>,
                                            <<IrrSeries(eq, "LeveredCashFlow"), lirr>>}
                   IN /\ Functional(memo2)
                      /\ memo' = memo2
                      /\ returned' = Append(returned,
                             [arg |-> data,
                              after |-> CallerDictAfter(data),
                              out |-> MetricsRecord(data, df, eq, uirr, lirr)])
             /\ dicts' = [dicts EXCEPT ![which] = CallerDictAfter(data)]
    /\ UNCHANGED <<proformaVars, irrVars, pipeVars>>

\* generate_return_metrics(dicts[which]) raises KeyError in a helper
CallRaises ==
    /\ Len(returned) < MaxCalls
    /\ \E which \in DOMAIN dicts :
          LET data == dicts[which]
          IN /\ KeyErrorRaised(data)
             /\ returned' = Append(returned,
                    [arg |-> data, after |-> CallerDictAfter(data), out |-> Raised])
             /\ dicts' = [dicts EXCEPT ![which] = CallerDictAfter(data)]
    /\ UNCHANGED memo
    /\ UNCHANGED <<proformaVars, irrVars, pipeVars>>

NextCalls == CallReturns \/ CallRaises

SpecCalls == InitCalls /\ [][NextCalls]_vars

C15_NoNonFiniteReturned ==
    pc = "done" => \A key \in DOMAIN metrics : metrics[key].k # "nonfinite"

=============================================================================
